---- MODULE Spec2Model ----
(***************************************************************************)
(* Payment-gated content generation of teachanythingnow.                   *)
(*                                                                         *)
(* The model follows app/api/generate/route.ts statement by statement:     *)
(* every await of the handler is one step of a request, so that requests   *)
(* interleave exactly where the handler yields.  The collaborators are     *)
(* the Stripe ledger (payment intents), the Supabase tables users,         *)
(* payments and packages, and the temp directory of generated files.       *)
(***************************************************************************)
EXTENDS Integers, Sequences, FiniteSets, TLC

\* ------------------------------------------------------------------ bounds
MaxReqs == 2        \* generate requests in flight or finished
MaxIntents == 1     \* payment intents the payment-create route may create
MaxNow == 2         \* distinct clock readings (Date.now / new Date)
MaxImages == 1      \* images the image generator may return
MaxDefective == 1   \* requests tried with a defective session or body
MaxTopicLen == 3    \* length of the topics enumerated for the file id

\* --------------------------------------------------------- program constants
EXPECTED_AMOUNT == 100
MIN_TOPIC_LEN == 3
MAX_TOPIC_LEN == 500
MAX_PID_LEN == 255
NullTime == 0       \* used_at IS NULL
NoPid == 0          \* paymentIntentId missing from the request body
FILE_ID_TOPIC_LEN == 50
OldTime == 0        \* clock reading of a generation made before the start
NULL == "null"
NoSession == "none"
Users == {"u1", "u2"}
Sessions == Users \cup {NoSession}

\* payment intents: 1..MaxIntents are created by the payment-create route,
\* the negative ones are intents of the same Stripe account that this app
\* did not create, each differing from a proper one in a single property
AppIntents == 1..MaxIntents
ForeignIntents == {0 - 1, 0 - 2, 0 - 3, 0 - 4}
Intents == AppIntents \cup ForeignIntents
LongPid == MaxIntents + 1   \* a reference longer than MAX_PID_LEN characters
PidInputs == Intents \cup {NoPid, LongPid}
PidLen(p) == IF p = LongPid THEN MAX_PID_LEN + 1 ELSE 27

\* ---------------------------------------------------------------- strings
\* a string is the sequence of its characters
LowerLetters == <<"a", "b", "c", "d", "e", "f", "g", "h", "i", "j", "k", "l", "m",
                  "n", "o", "p", "q", "r", "s", "t", "u", "v", "w", "x", "y", "z">>
UpperLetters == <<"A", "B", "C", "D", "E", "F", "G", "H", "I", "J", "K", "L", "M",
                  "N", "O", "P", "Q", "R", "S", "T", "U", "V", "W", "X", "Y", "Z">>
DigitChars == <<"0", "1", "2", "3", "4", "5", "6", "7", "8", "9">>
Range(f) == { f[k] : k \in DOMAIN f }
\* the characters of the class [a-z0-9_]
SafeChars == Range(LowerLetters) \cup Range(DigitChars) \cup {"_"}
IsDigit(c) == c \in Range(DigitChars)
IsSpace(c) == c = " "

\* String.prototype.toLowerCase
LowerChar(c) ==
  IF c \in Range(UpperLetters)
  THEN LowerLetters[CHOOSE k \in DOMAIN UpperLetters : UpperLetters[k] = c]
  ELSE c
ToLower(s) == [k \in DOMAIN s |-> LowerChar(s[k])]

\* String.prototype.trim
RECURSIVE trimStart(_)
trimStart(s) == IF s # << >> /\ IsSpace(Head(s)) THEN trimStart(Tail(s)) ELSE s
RECURSIVE trimEnd(_)
trimEnd(s) ==
  IF s # << >> /\ IsSpace(s[Len(s)]) THEN trimEnd(SubSeq(s, 1, Len(s) - 1)) ELSE s
trim(s) == trimEnd(trimStart(s))

\* s.substring(0, n)
substring(s, n) == SubSeq(s, 1, IF Len(s) < n THEN Len(s) ELSE n)

\* a replace that drops the characters outside [a-z0-9_]
ReplaceUnsafe_Remove(s) == SelectSeq(s, LAMBDA c : c \in SafeChars)

\* s.replace(/[^a-z0-9_]/g, "_")
ReplaceUnsafe(s) == [k \in DOMAIN s |-> IF s[k] \in SafeChars THEN s[k] ELSE "_"]

\* s.replace(/\s+/g, "_"): every run of white space becomes one underscore
ReplaceSpaces(s) ==
  LET first == SelectSeq([k \in DOMAIN s |-> k],
                         LAMBDA k : ~IsSpace(s[k]) \/ k = 1 \/ ~IsSpace(s[k - 1]))
  IN [j \in DOMAIN first |-> IF IsSpace(s[first[j]]) THEN "_" ELSE s[first[j]]]

\* the decimal digits of a number, as template literals print it
RECURSIVE DigitsOf(_)
DigitsOf(n) ==
  IF n < 10 THEN <<DigitChars[n + 1]>>
  ELSE DigitsOf(n \div 10) \o <<DigitChars[(n % 10) + 1]>>

\* topics tried by the generate requests: too short, the shortest valid one,
\* and one character too long
ShortTopic == <<"a", "b">>
PlainTopic == <<"a", "b", "c">>
LongTopic == [k \in 1..(MAX_TOPIC_LEN + 1) |-> "a"]
\* a body without topic has the empty one; NumberTopic stands for a topic
\* that is not a string
NoTopic == << >>
NumberTopic == <<"number">>
TopicInputs == {ShortTopic, PlainTopic, LongTopic}

Reqs == 1..MaxReqs

\* Stripe customer of an e-mail address (stripe.customers.list({email}))
CustomerOf(u) == IF u = "u1" THEN "cus_1" ELSE "cus_2"
\* the customer objects Stripe may hold for a user, in the order of creation
CustomerNames(u) ==
  IF u = "u1" THEN <<"cus_1", "cus_1b", "cus_1c", "cus_1d">>
  ELSE <<"cus_2", "cus_2b", "cus_2c", "cus_2d">>
EmailOf(c) == IF c \in Range(CustomerNames("u1")) THEN "u1" ELSE "u2"

\* Stripe reports currency codes in lower case; toLowerCase leaves them alone
toLowerCase(s) == IF s = "GBP" THEN "gbp" ELSE IF s = "USD" THEN "usd" ELSE s

VARIABLES
  users,      \* users table: email -> row
  ledger,     \* Stripe payment intents: id -> intent
  payments,   \* payments table: stripe_payment_intent_id (UNIQUE) -> row
  packages,   \* packages table, in insertion order
  files,      \* names of the files in the temp directory
  events,     \* webhook events Stripe has still to deliver
  now,        \* last clock reading
  usedWrites, \* history: how often used_at of a payment was written
  req         \* the generate requests

vars == <<users, ledger, payments, packages, files, events, now, usedWrites, req>>

NoUser == [exists |-> FALSE, stripe_customer_id |-> NULL]
\* a row as the sign-in adapter creates it: no billing customer yet
NewUser == [exists |-> TRUE, stripe_customer_id |-> NULL]
NoIntent == [exists |-> FALSE, status |-> "none", amount |-> 0,
             currency |-> "none", customer |-> NULL]
NoPayment == [exists |-> FALSE, user_id |-> NULL, stripe_customer_id |-> NULL,
              amount |-> 0, currency |-> "none", status |-> "none",
              used_at |-> NullTime]

ForeignIntent(i) ==
  [exists |-> TRUE, status |-> "succeeded",
   amount |-> IF i = 0 - 2 THEN 50 ELSE 100,
   currency |-> IF i = 0 - 3 THEN "usd" ELSE "gbp",
   customer |-> IF i = 0 - 4 THEN NULL ELSE "cus_1"]

IdleReq == [pc |-> "idle", variant |-> "route", session |-> NoSession,
            topic |-> NoTopic, pid |-> NoPid,
            user |-> NoUser, intent |-> NoIntent, found |-> FALSE,
            affected |-> 0 - 1,
            aiFailed |-> FALSE, content |-> "none", audio |-> "none",
            imagesFailed |-> FALSE, images |-> 0, fileTime |-> 0,
            saved |-> FALSE, insertFailed |-> FALSE, retry |-> FALSE,
            late |-> FALSE, customer |-> NULL, created |-> NULL,
            fallback |-> FALSE,
            file |-> << >>, prefix |-> << >>, bytes |-> << >>, list |-> << >>,
            after |-> {}, status |-> 0, error |-> "none"]

Init ==
  /\ users = [u \in Users |-> IF u = "u1" THEN NewUser ELSE NoUser]
  /\ ledger = [i \in Intents |-> IF i \in ForeignIntents THEN ForeignIntent(i)
                                 ELSE NoIntent]
  /\ payments = [i \in Intents |-> NoPayment]
  /\ packages = << >>
  /\ files = {}
  /\ events = {}
  /\ now = 1
  /\ usedWrites = [i \in Intents |-> 0]
  /\ req = [r \in Reqs |-> IdleReq]

\* ------------------------------------------------------------------ helpers
\* the tests of the topic without the one of the minimum length
ValidTopic_NoMinimum(t) ==
  /\ t # NoTopic /\ t # NumberTopic /\ Len(trim(t)) # 0
  /\ Len(trim(t)) <= MAX_TOPIC_LEN

\* !topic || typeof topic !== "string" || topic.trim().length === 0, and the
\* two tests of the length of the trimmed topic
ValidTopic(t) ==
  /\ t # NoTopic /\ t # NumberTopic /\ Len(trim(t)) # 0
  /\ Len(trim(t)) <= MAX_TOPIC_LEN
  /\ Len(trim(t)) >= MIN_TOPIC_LEN
ValidPid(p) == p # NoPid /\ PidLen(p) <= MAX_PID_LEN

\* a proper request: a signed-in caller, a valid topic and the reference of
\* an intent of this app; the defective ones tried have a single defect
ProperInput(x) ==
  x[1] \in Users /\ ValidTopic(x[2]) /\ x[3] \in AppIntents

GenerateInputs ==
  { x \in Sessions \X TopicInputs \X PidInputs :
      \/ ProperInput(x)
      \/ Cardinality({k \in 1..3 :
            \/ k = 1 /\ x[1] # "u1"
            \/ k = 2 /\ ~ValidTopic(x[2])
            \/ k = 3 /\ x[3] \notin AppIntents}) = 1 }

Started == { r \in Reqs : req[r].pc # "idle" }
Defective(r) ==
  /\ req[r].variant \in {"route", "legacy"}
  /\ ~ProperInput(<<req[r].session, req[r].topic, req[r].pid>>)

\* the clock never runs backwards; a reading is the last one or a later one
ClockReadings == { t \in {now, now + 1} : t <= MaxNow }

\* .eq("stripe_payment_intent_id", paymentIntentId).eq("user_id", user.id)
MatchPayment(row, uid) == row.exists /\ row.user_id = uid

Reply(q, code, err) == [q EXCEPT !.pc = "done", !.status = code, !.error = err]

Done(r) == req[r].pc = "done"

\* a request that was turned away by one of the checks made before the
\* conditional update (session, topic, reference, user, ledger, local row)
ValidationFailure(r) ==
  /\ Done(r)
  /\ \/ req[r].status \in {400, 401, 402, 404}
     \/ req[r].status = 403 /\ req[r].error = "Forbidden"

\* `${sanitizedTopic.toLowerCase().replace(/[^a-z0-9_]/g, "_")
\*      .substring(0, 50)}_${timestamp}`
RouteFileId(topic, timestamp) ==
  substring(ReplaceUnsafe(ToLower(trim(topic))), FILE_ID_TOPIC_LEN)
    \o <<"_">> \o DigitsOf(timestamp)

\* `${topic.toLowerCase().replace(/\s+/g, "_")}_${timestamp}` (part_015)
LegacyFileId(topic, timestamp) ==
  ReplaceSpaces(ToLower(topic)) \o <<"_">> \o DigitsOf(timestamp)

FileId(q) ==
  IF q.variant = "legacy" THEN LegacyFileId(q.topic, q.fileTime)
  ELSE RouteFileId(q.topic, q.fileTime)

\* a Suffix that numbers the images from 0
Suffix_ZeroBased(part, n) ==
  CASE part = "pptx" -> <<".", "p", "p", "t", "x">>
    [] part = "mp3" -> <<".", "m", "p", "3">>
    [] part = "txt" -> <<".", "t", "x", "t">>
    [] part = "worksheet" ->
         <<"_", "w", "o", "r", "k", "s", "h", "e", "e", "t", ".", "d", "o", "c", "x">>
    [] part = "answers" ->
         <<"_", "a", "n", "s", "w", "e", "r", "s", ".", "p", "d", "f">>
    [] part = "image" ->
         <<"_", "i", "m", "a", "g", "e", "_">> \o DigitsOf(n - 1) \o <<".", "p", "n", "g">>

Suffix(part, n) ==
  CASE part = "pptx" -> <<".", "p", "p", "t", "x">>
    [] part = "mp3" -> <<".", "m", "p", "3">>
    [] part = "txt" -> <<".", "t", "x", "t">>
    [] part = "worksheet" ->
         <<"_", "w", "o", "r", "k", "s", "h", "e", "e", "t", ".", "d", "o", "c", "x">>
    [] part = "answers" ->
         <<"_", "a", "n", "s", "w", "e", "r", "s", ".", "p", "d", "f">>
    [] part = "image" ->
         <<"_", "i", "m", "a", "g", "e", "_">> \o DigitsOf(n) \o <<".", "p", "n", "g">>

FileName(q, part, n) == FileId(q) \o Suffix(part, n)
ImageFiles(q) == [n \in 1..q.images |-> FileName(q, "image", n)]
FilesData(q) ==
  [presentation |-> FileName(q, "pptx", 0), audio |-> FileName(q, "mp3", 0),
   worksheet |-> FileName(q, "worksheet", 0),
   answerSheet |-> FileName(q, "answers", 0), images |-> ImageFiles(q)]

\* the body of the success response
Response(q) == [files |-> FilesData(q), packageId |-> FileId(q)]

\* --------------------------------------------- POST /api/generate (route.ts)
GenerateStart(r, s, t, p) ==
  /\ req[r].pc = "idle"
  /\ \A q \in Reqs : q < r => req[q].pc # "idle"
  /\ ProperInput(<<s, t, p>>)
       \/ Cardinality({q \in Started : Defective(q)}) < MaxDefective
  /\ LET q0 == [req[r] EXCEPT !.session = s, !.topic = t, !.pid = p,
                  !.retry = \E q \in Reqs : ValidationFailure(q) /\ req[q].pid = p,
                  !.late = p \in Intents /\ payments[p].used_at # NullTime]
     IN req' = [req EXCEPT ![r] =
          IF s = NoSession THEN Reply(q0, 401, "Unauthorized")
          ELSE IF ~ValidTopic(t) THEN Reply(q0, 400, "InvalidArgument")
          ELSE IF ~ValidPid(p) THEN Reply(q0, 402, "PaymentRequired")
          ELSE [q0 EXCEPT !.pc = "getUser"]]
  /\ UNCHANGED <<users, ledger, payments, packages, files, events, now, usedWrites>>

\* GenerateGetUser that creates the row of a user that has none
GenerateGetUser_Creates(r) ==
  /\ req[r].pc = "getUser"
  /\ LET u == IF users[req[r].session].exists THEN users[req[r].session]
              ELSE NewUser
     IN /\ req' = [req EXCEPT ![r] = [@ EXCEPT !.user = u, !.pc = "retrieve"]]
        /\ users' = [users EXCEPT ![req[r].session] = u]
  /\ UNCHANGED <<ledger, payments, packages, files, events, now, usedWrites>>

GenerateGetUser(r) ==
  /\ req[r].pc = "getUser"
  /\ LET u == users[req[r].session]
     IN req' = [req EXCEPT ![r] =
          IF ~u.exists THEN Reply(@, 404, "NotFound")
          ELSE [@ EXCEPT !.user = u, !.pc = "retrieve"]]
  /\ UNCHANGED <<users, ledger, payments, packages, files, events, now, usedWrites>>

\* variants of RetrieveChecks with one check left out
RetrieveChecks_NoStatusCheck(q, pi) ==
  IF ~pi.exists THEN Reply(q, 402, "PaymentRequired")
  ELSE IF pi.amount # EXPECTED_AMOUNT THEN Reply(q, 402, "PaymentInvalid")
  ELSE IF toLowerCase(pi.currency) # "gbp" THEN Reply(q, 402, "PaymentInvalid")
  ELSE IF pi.customer # q.user.stripe_customer_id THEN Reply(q, 403, "Forbidden")
  ELSE [q EXCEPT !.pc = "selectPayment"]

RetrieveChecks_NoAmountCheck(q, pi) ==
  IF ~pi.exists THEN Reply(q, 402, "PaymentRequired")
  ELSE IF pi.status # "succeeded" THEN Reply(q, 402, "PaymentRequired")
  ELSE IF toLowerCase(pi.currency) # "gbp" THEN Reply(q, 402, "PaymentInvalid")
  ELSE IF pi.customer # q.user.stripe_customer_id THEN Reply(q, 403, "Forbidden")
  ELSE [q EXCEPT !.pc = "selectPayment"]

\* the customer check skipped when either reference is absent
RetrieveChecks_NullCustomerPasses(q, pi) ==
  IF ~pi.exists THEN Reply(q, 402, "PaymentRequired")
  ELSE IF pi.status # "succeeded" THEN Reply(q, 402, "PaymentRequired")
  ELSE IF pi.amount # EXPECTED_AMOUNT THEN Reply(q, 402, "PaymentInvalid")
  ELSE IF toLowerCase(pi.currency) # "gbp" THEN Reply(q, 402, "PaymentInvalid")
  ELSE IF /\ pi.customer # NULL /\ q.user.stripe_customer_id # NULL
          /\ pi.customer # q.user.stripe_customer_id
    THEN Reply(q, 403, "Forbidden")
  ELSE [q EXCEPT !.pc = "selectPayment"]

RetrieveChecks(q, pi) ==
  IF ~pi.exists THEN Reply(q, 402, "PaymentRequired")
  ELSE IF pi.status # "succeeded" THEN Reply(q, 402, "PaymentRequired")
  ELSE IF pi.amount # EXPECTED_AMOUNT THEN Reply(q, 402, "PaymentInvalid")
  ELSE IF toLowerCase(pi.currency) # "gbp" THEN Reply(q, 402, "PaymentInvalid")
  ELSE IF pi.customer # q.user.stripe_customer_id THEN Reply(q, 403, "Forbidden")
  ELSE [q EXCEPT !.pc = "selectPayment"]

GenerateRetrieve(r) ==
  /\ req[r].pc = "retrieve"
  /\ LET pi == ledger[req[r].pid]
     IN req' = [req EXCEPT ![r] = RetrieveChecks([@ EXCEPT !.intent = pi], pi)]
  /\ UNCHANGED <<users, ledger, payments, packages, files, events, now, usedWrites>>

\* SelectChecks without the test for a missing row
SelectChecks_NoRowCheck(q, row) ==
  IF row.used_at # NullTime
    THEN Reply([q EXCEPT !.found = TRUE],
               403, "PaymentAlreadyUsed")
  ELSE [q EXCEPT !.found = TRUE,
                 !.pc = IF row.status # "succeeded" THEN "fixStatus" ELSE "consume"]

\* SelectChecks that turns away a request whose local row is not succeeded
SelectChecks_LocalStatus(q, row) ==
  IF ~MatchPayment(row, q.session) THEN Reply(q, 403, "Forbidden")
  ELSE IF row.used_at # NullTime
    THEN Reply([q EXCEPT !.found = TRUE],
               403, "PaymentAlreadyUsed")
  ELSE IF row.status # "succeeded"
    THEN Reply([q EXCEPT !.found = TRUE],
               402, "PaymentRequired")
  ELSE [q EXCEPT !.found = TRUE, !.pc = "consume"]

SelectChecks(q, row) ==
  IF ~MatchPayment(row, q.session) THEN Reply(q, 403, "Forbidden")
  ELSE IF row.used_at # NullTime
    THEN Reply([q EXCEPT !.found = TRUE],
               403, "PaymentAlreadyUsed")
  ELSE [q EXCEPT !.found = TRUE,
                 !.pc = IF row.status # "succeeded" THEN "fixStatus" ELSE "consume"]

GenerateSelectPayment(r) ==
  /\ req[r].pc = "selectPayment"
  /\ req' = [req EXCEPT ![r] = SelectChecks(@, payments[@.pid])]
  /\ UNCHANGED <<users, ledger, payments, packages, files, events, now, usedWrites>>

GenerateFixStatus(r) ==
  /\ req[r].pc = "fixStatus"
  /\ LET i == req[r].pid
     IN payments' = IF MatchPayment(payments[i], req[r].session)
                    THEN [payments EXCEPT ![i].status = "succeeded"]
                    ELSE payments
  /\ req' = [req EXCEPT ![r].pc = "consume"]
  /\ UNCHANGED <<users, ledger, packages, files, events, now, usedWrites>>

\* UPDATE payments SET used_at = now WHERE intent = pid AND user_id = uid
\*   AND used_at IS NULL; the number of rows it returns decides the request
ConsumeApplies_NoNullCheck(row, uid) == MatchPayment(row, uid)

ConsumeApplies(row, uid) == MatchPayment(row, uid) /\ row.used_at = NullTime

\* GenerateConsume that goes on whatever the update returned
GenerateConsume_Unchecked(r) ==
  /\ req[r].pc = "consume"
  /\ \E t \in ClockReadings :
       LET i == req[r].pid
       IN /\ now' = t
          /\ IF ConsumeApplies(payments[i], req[r].session)
             THEN /\ payments' = [payments EXCEPT ![i].used_at = t]
                  /\ usedWrites' = [usedWrites EXCEPT ![i] = @ + 1]
                  /\ req' = [req EXCEPT ![r].affected = 1, ![r].pc = "content"]
             ELSE /\ req' = [req EXCEPT ![r].affected = 0, ![r].pc = "content"]
                  /\ UNCHANGED <<payments, usedWrites>>
  /\ UNCHANGED <<users, ledger, packages, files, events>>

GenerateConsume(r) ==
  /\ req[r].pc = "consume"
  /\ \E t \in ClockReadings :
       LET i == req[r].pid
       IN /\ now' = t
          /\ IF ConsumeApplies(payments[i], req[r].session)
             THEN /\ payments' = [payments EXCEPT ![i].used_at = t]
                  /\ usedWrites' = [usedWrites EXCEPT ![i] = @ + 1]
                  /\ req' = [req EXCEPT ![r].affected = 1, ![r].pc = "content"]
             ELSE /\ req' = [req EXCEPT ![r] =
                       Reply([@ EXCEPT !.affected = 0], 403, "PaymentAlreadyUsed")]
                  /\ UNCHANGED <<payments, usedWrites>>
  /\ UNCHANGED <<users, ledger, packages, files, events>>

\* generateContent: a failure of the provider is caught inside and the
\* template content is returned instead, so the call itself never throws
\* generateContent that lets the provider's failure escape
generateContent_Throws(q, aiOk) ==
  IF aiOk THEN [q EXCEPT !.content = "ai", !.pc = "ppt"]
  ELSE Reply([q EXCEPT !.aiFailed = TRUE], 500, "GenerationFailed")

generateContent(q, aiOk) ==
  [q EXCEPT !.aiFailed = ~aiOk, !.content = IF aiOk THEN "ai" ELSE "template",
            !.pc = "ppt"]

GenerateContent(r) ==
  /\ req[r].pc = "content"
  /\ \E aiOk \in BOOLEAN : req' = [req EXCEPT ![r] = generateContent(@, aiOk)]
  /\ UNCHANGED <<users, ledger, payments, packages, files, events, now, usedWrites>>

\* Date.now(), fileId, generatePPT and the write of {fileId}.pptx
GeneratePPT(r) ==
  /\ req[r].pc = "ppt"
  /\ \E t \in ClockReadings, ok \in BOOLEAN :
       LET q == [req[r] EXCEPT !.fileTime = t]
       IN /\ now' = t
          /\ IF ok
             THEN /\ files' = files \cup {FileName(q, "pptx", 0)}
                  /\ req' = [req EXCEPT ![r] = [q EXCEPT !.pc = "audio"]]
             ELSE /\ req' = [req EXCEPT ![r] = Reply(q, 500, "GenerationFailed")]
                  /\ UNCHANGED files
  /\ UNCHANGED <<users, ledger, payments, packages, events, usedWrites>>

\* a generateAudio that degrades to the script as a text file
generateAudio_TextFallback(q, ttsOk) ==
  IF ttsOk THEN [q EXCEPT !.audio = "mp3", !.pc = "worksheet"]
  ELSE [q EXCEPT !.audio = "txt", !.pc = "worksheet"]

\* generateAudio throws when the script is empty or the speech call fails;
\* nothing is written in that case
generateAudio(q, ttsOk) ==
  IF ttsOk THEN [q EXCEPT !.audio = "mp3", !.pc = "worksheet"]
  ELSE Reply([q EXCEPT !.audio = "failed"], 500, "GenerationFailed")

\* GenerateAudio that gives the payment back when the audio step throws
GenerateAudio_Releases(r) ==
  /\ req[r].pc = "audio"
  /\ \E ttsOk \in BOOLEAN :
       LET q == generateAudio(req[r], ttsOk)
       IN /\ req' = [req EXCEPT ![r] = q]
          /\ files' = IF q.audio = "failed" THEN files
                      ELSE files \cup {FileName(q, q.audio, 0)}
          /\ payments' = IF q.audio = "failed"
                         THEN [payments EXCEPT ![q.pid].used_at = NullTime]
                         ELSE payments
  /\ UNCHANGED <<users, ledger, packages, events, now, usedWrites>>

GenerateAudio(r) ==
  /\ req[r].pc = "audio"
  /\ \E ttsOk \in BOOLEAN :
       LET q == generateAudio(req[r], ttsOk)
       IN /\ req' = [req EXCEPT ![r] = q]
          /\ files' = IF q.audio = "failed" THEN files
                      ELSE files \cup {FileName(q, q.audio, 0)}
  /\ UNCHANGED <<users, ledger, payments, packages, events, now, usedWrites>>

\* GenerateWorksheet that goes on without the documents when they fail
GenerateWorksheet_Optional(r) ==
  /\ req[r].pc = "worksheet"
  /\ \E ok \in BOOLEAN :
       IF ok
       THEN /\ files' = files \cup {FileName(req[r], "worksheet", 0),
                                    FileName(req[r], "answers", 0)}
            /\ req' = [req EXCEPT ![r].pc = "images"]
       ELSE /\ req' = [req EXCEPT ![r].pc = "images"]
            /\ UNCHANGED files
  /\ UNCHANGED <<users, ledger, payments, packages, events, now, usedWrites>>

GenerateWorksheet(r) ==
  /\ req[r].pc = "worksheet"
  /\ \E ok \in BOOLEAN :
       IF ok
       THEN /\ files' = files \cup {FileName(req[r], "worksheet", 0),
                                    FileName(req[r], "answers", 0)}
            /\ req' = [req EXCEPT ![r].pc = "images"]
       ELSE /\ req' = [req EXCEPT ![r] = Reply(@, 500, "GenerationFailed")]
            /\ UNCHANGED files
  /\ UNCHANGED <<users, ledger, payments, packages, events, now, usedWrites>>

\* GenerateImages that fails the request when no image was obtained
GenerateImages_Fatal(r) ==
  /\ req[r].pc = "images"
  /\ req[r].variant = "route"
  /\ \E k \in 0..MaxImages :
       \E m \in 0..k :
         \E j \in 0..m :
           LET q == [req[r] EXCEPT !.imagesFailed = (m = 0), !.images = j,
                                   !.pc = "savePackage"]
           IN /\ req' = [req EXCEPT ![r] =
                    IF m = 0 THEN Reply(q, 500, "GenerationFailed") ELSE q]
              /\ files' = files \cup {FileName(q, "image", n) : n \in 1..j}
  /\ UNCHANGED <<users, ledger, payments, packages, events, now, usedWrites>>

\* generateImages returns k images (none when it fails), downloadImages
\* m <= k buffers (an image whose download fails is skipped), and the loop
\* writes j <= m of them before a write error, if any, ends the try block
GenerateImages(r) ==
  /\ req[r].pc = "images"
  /\ req[r].variant = "route"
  /\ \E k \in 0..MaxImages :
       \E m \in 0..k :
         \E j \in 0..m :
           LET q == [req[r] EXCEPT !.imagesFailed = (m = 0), !.images = j,
                                   !.pc = "savePackage"]
           IN /\ req' = [req EXCEPT ![r] = q]
              /\ files' = files \cup {FileName(q, "image", n) : n \in 1..j}
  /\ UNCHANGED <<users, ledger, payments, packages, events, now, usedWrites>>

\* GenerateSavePackage that fails the request when the insert fails
GenerateSavePackage_Fatal(r) ==
  /\ req[r].pc = "savePackage"
  /\ \E t \in ClockReadings, ok \in BOOLEAN :
       LET q == req[r]
           row == [user_id |-> q.session,
                   payment_id |-> IF MatchPayment(payments[q.pid], q.session)
                                  THEN q.pid ELSE NoPid,
                   topic |-> trim(q.topic), file_id |-> FileId(q),
                   files |-> FilesData(q), created_at |-> t]
       IN /\ now' = t
          /\ packages' = IF ok THEN Append(packages, row) ELSE packages
          /\ req' = [req EXCEPT ![r] =
               IF ok THEN Reply([q EXCEPT !.saved = TRUE], 200, "none")
               ELSE Reply([q EXCEPT !.insertFailed = TRUE], 500, "GenerationFailed")]
  /\ UNCHANGED <<users, ledger, payments, files, events, usedWrites>>

\* GenerateSavePackage that keeps one row per user, replacing the one stored
GenerateSavePackage_Replaces(r) ==
  /\ req[r].pc = "savePackage"
  /\ \E t \in ClockReadings, ok \in BOOLEAN :
       LET q == req[r]
           row == [user_id |-> q.session,
                   payment_id |-> IF MatchPayment(payments[q.pid], q.session)
                                  THEN q.pid ELSE NoPid,
                   topic |-> trim(q.topic), file_id |-> FileId(q),
                   files |-> FilesData(q), created_at |-> t]
           others == SelectSeq(packages, LAMBDA x : x.user_id # q.session)
       IN /\ now' = t
          /\ packages' = IF ok THEN Append(others, row) ELSE packages
          /\ req' = [req EXCEPT ![r] =
               Reply([q EXCEPT !.saved = ok, !.insertFailed = ~ok], 200, "none")]
  /\ UNCHANGED <<users, ledger, payments, files, events, usedWrites>>

\* the payment id is read again and the package row inserted; an error of
\* the insert is logged only
GenerateSavePackage(r) ==
  /\ req[r].pc = "savePackage"
  /\ \E t \in ClockReadings, ok \in BOOLEAN :
       LET q == req[r]
           row == [user_id |-> q.session,
                   payment_id |-> IF MatchPayment(payments[q.pid], q.session)
                                  THEN q.pid ELSE NoPid,
                   topic |-> trim(q.topic), file_id |-> FileId(q),
                   files |-> FilesData(q), created_at |-> t]
       IN /\ now' = t
          /\ packages' = IF ok THEN Append(packages, row) ELSE packages
          /\ req' = [req EXCEPT ![r] =
               Reply([q EXCEPT !.saved = ok, !.insertFailed = ~ok], 200, "none")]
  /\ UNCHANGED <<users, ledger, payments, files, events, usedWrites>>

\* the steps of the handler after the tests of the request
GenerateSteps(r) ==
  \/ GenerateGetUser(r)
  \/ GenerateRetrieve(r)
  \/ GenerateSelectPayment(r)
  \/ GenerateFixStatus(r)
  \/ GenerateConsume(r)
  \/ GenerateContent(r)
  \/ GeneratePPT(r)
  \/ GenerateAudio(r)
  \/ GenerateWorksheet(r)
  \/ GenerateImages(r)
  \/ GenerateSavePackage(r)

Generate(r) ==
  \/ \E x \in GenerateInputs : GenerateStart(r, x[1], x[2], x[3])
  \/ GenerateSteps(r)

\* ------------------------------------ POST /api/payment/create (route.ts)
\* getOrCreateStripeCustomer: the stored customer when there is one, else the
\* Stripe customer of the e-mail address, upserted into users
getOrCreateStripeCustomer(u) ==
  IF users[u].exists /\ users[u].stripe_customer_id # NULL
  THEN users[u].stripe_customer_id
  ELSE CustomerOf(u)

PaymentCreate(u, i) ==
  /\ i \in AppIntents
  /\ ~ledger[i].exists
  /\ \A j \in AppIntents : j < i => ledger[j].exists
  /\ LET customerId == getOrCreateStripeCustomer(u)
     IN /\ users' = [users EXCEPT ![u] =
                       [exists |-> TRUE, stripe_customer_id |-> customerId]]
        /\ ledger' = [ledger EXCEPT ![i] =
                       [exists |-> TRUE, status |-> "requires_payment_method",
                        amount |-> 100, currency |-> "gbp",
                        customer |-> customerId]]
        /\ payments' = [payments EXCEPT ![i] =
                       [exists |-> TRUE, user_id |-> u,
                        stripe_customer_id |-> customerId, amount |-> 100,
                        currency |-> "gbp", status |-> "pending",
                        used_at |-> NullTime]]
  /\ UNCHANGED <<packages, files, events, now, usedWrites, req>>

\* the handler when the read of the user row returns nothing or the insert
\* of the payment row fails: neither result is inspected, and the intent is
\* returned all the same; the user row may or may not have been synchronised
PaymentCreateUnstored(u, i) ==
  /\ i \in AppIntents
  /\ ~ledger[i].exists
  /\ \A j \in AppIntents : j < i => ledger[j].exists
  /\ LET customerId == getOrCreateStripeCustomer(u)
     IN /\ \E synced \in BOOLEAN :
             users' = IF synced
                      THEN [users EXCEPT ![u] =
                              [exists |-> TRUE, stripe_customer_id |-> customerId]]
                      ELSE users
        /\ ledger' = [ledger EXCEPT ![i] =
                       [exists |-> TRUE, status |-> "requires_payment_method",
                        amount |-> 100, currency |-> "gbp",
                        customer |-> customerId]]
  /\ UNCHANGED <<payments, packages, files, events, now, usedWrites, req>>

\* ------------------------------------------------- the customer and Stripe
StripeConfirm(i) ==
  /\ i \in AppIntents
  /\ ledger[i].exists /\ ledger[i].status = "requires_payment_method"
  /\ ledger' = [ledger EXCEPT ![i].status = "succeeded"]
  /\ events' = events \cup {<<"payment_intent.succeeded", i>>}
  /\ UNCHANGED <<users, payments, packages, files, now, usedWrites, req>>

StripeDecline(i) ==
  /\ i \in AppIntents
  /\ ledger[i].exists /\ ledger[i].status = "requires_payment_method"
  /\ <<"payment_intent.payment_failed", i>> \notin events
  /\ events' = events \cup {<<"payment_intent.payment_failed", i>>}
  /\ UNCHANGED <<users, ledger, payments, packages, files, now, usedWrites, req>>

\* --------------------------------------------- POST /api/payment/verify
VerifyPayment(i) ==
  /\ ledger[i].exists /\ ledger[i].status = "succeeded"
  /\ payments[i].exists /\ payments[i].status # "succeeded"
  /\ payments' = [payments EXCEPT ![i].status = "succeeded"]
  /\ UNCHANGED <<users, ledger, packages, files, events, now, usedWrites, req>>

\* --------------------------------------------- POST /api/stripe/webhook
syncPaymentToDatabase(i) ==
  LET c == ledger[i].customer
  IN IF c = NULL THEN UNCHANGED <<users, payments>>
     ELSE /\ users' = IF users[EmailOf(c)].exists THEN users
                      ELSE [users EXCEPT ![EmailOf(c)] =
                              [exists |-> TRUE, stripe_customer_id |-> c]]
          /\ payments' = IF payments[i].exists
                         THEN [payments EXCEPT ![i].status = "succeeded"]
                         ELSE payments

\* updatePaymentStatus that also clears used_at
updatePaymentStatus_Resets(i, status) ==
  /\ payments' = IF payments[i].exists
                 THEN [payments EXCEPT ![i].status = status, ![i].used_at = NullTime]
                 ELSE payments
  /\ UNCHANGED users

updatePaymentStatus(i, status) ==
  /\ payments' = IF payments[i].exists
                 THEN [payments EXCEPT ![i].status = status]
                 ELSE payments
  /\ UNCHANGED users

Webhook(e) ==
  /\ e \in events
  /\ events' = events \ {e}
  /\ IF e[1] = "payment_intent.succeeded"
     THEN syncPaymentToDatabase(e[2])
     ELSE updatePaymentStatus(e[2], "failed")
  /\ UNCHANGED <<ledger, packages, files, now, usedWrites, req>>

\* ---------------------------------------------- GET /api/packages (route.ts)
\* the columns the listing selects; id is the position of the row
PackageColumns(k) ==
  [id |-> k, topic |-> packages[k].topic, file_id |-> packages[k].file_id,
   files |-> packages[k].files, created_at |-> packages[k].created_at]

\* .eq("user_id", user.id)
OwnPackages(uid) == { k \in 1..Len(packages) : packages[k].user_id = uid }

\* .order("created_at", { ascending: true }): a listing with the oldest first
Orderings_Ascending(S) ==
  { f \in [1..Cardinality(S) -> S] :
      /\ \A a, b \in DOMAIN f : a # b => f[a] # f[b]
      /\ \A a, b \in DOMAIN f :
           a < b => packages[f[a]].created_at <= packages[f[b]].created_at }

\* .order("created_at", { ascending: false }): every arrangement of the rows
\* in which no row precedes a newer one (rows of equal time in either order)
Orderings(S) ==
  { f \in [1..Cardinality(S) -> S] :
      /\ \A a, b \in DOMAIN f : a # b => f[a] # f[b]
      /\ \A a, b \in DOMAIN f :
           a < b => packages[f[a]].created_at >= packages[f[b]].created_at }

ListPackages(r, s) ==
  /\ req[r].pc = "idle"
  /\ \A q \in Reqs : q < r => req[q].pc # "idle"
  /\ \E ok \in BOOLEAN, f \in Orderings(OwnPackages(s)) :
       LET q0 == [req[r] EXCEPT !.variant = "packages", !.session = s,
                                !.after = { q \in Reqs : Done(q) }]
       IN req' = [req EXCEPT ![r] =
            IF s = NoSession THEN Reply(q0, 401, "Unauthorized")
            ELSE IF ~users[s].exists THEN Reply(q0, 404, "NotFound")
            ELSE IF ~ok THEN Reply(q0, 500, "InternalError")
            ELSE Reply([q0 EXCEPT !.list = [k \in DOMAIN f |-> PackageColumns(f[k])]],
                       200, "none")]
  /\ UNCHANGED <<users, ledger, payments, packages, files, events, now, usedWrites>>

\* ---------------------------------------------- GET /api/download (route.ts)
HasAt(s, p, w) == p + Len(w) - 1 <= Len(s) /\ SubSeq(s, p, p + Len(w) - 1) = w

Max(S) == CHOOSE x \in S : \A y \in S : y <= x

\* the end of the longest run of characters other than "_" that starts at p
\* (p - 1 when there is none)
SegEnd(s, p) ==
  Max({p - 1} \cup { j \in p..Len(s) : \A k \in p..j : s[k] # "_" })

\* the same for a run of digits
DigitRunEnd(s, p) ==
  Max({p - 1} \cup { j \in p..Len(s) : \A k \in p..j : IsDigit(s[k]) })

\* (?:_(?:worksheet|answers|image_\d+))?\. matched at position e + 1
TailMatches(s, e) ==
  \/ HasAt(s, e + 1, <<".">>)
  \/ HasAt(s, e + 1, <<"_", "w", "o", "r", "k", "s", "h", "e", "e", "t", ".">>)
  \/ HasAt(s, e + 1, <<"_", "a", "n", "s", "w", "e", "r", "s", ".">>)
  \/ /\ HasAt(s, e + 1, <<"_", "i", "m", "a", "g", "e", "_">>)
     /\ LET d == DigitRunEnd(s, e + 8)
        IN d >= e + 8 /\ HasAt(s, d + 1, <<".">>)

\* [^_]+(?:_[^_]+)*? from position p on, followed by the tail: the end of
\* the first match in the order in which the regular expression engine
\* tries them (0 when there is none).  [^_]+ is greedy and takes the whole
\* run; the lazy repetition first tries to stop, then to take one more
\* "_run"; only when all of that failed the run is shortened, and a
\* shortened run can be followed by "." alone.
RECURSIVE MatchFrom(_, _)
MatchFrom(s, p) ==
  IF p > Len(s) \/ s[p] = "_" THEN 0
  ELSE LET m == SegEnd(s, p)
           more == MatchFrom(s, m + 2)
           shorter == { j \in p..(m - 1) : s[j + 1] = "." }
       IN IF TailMatches(s, m) THEN m
          ELSE IF more # 0 THEN more
          ELSE IF shorter # {} THEN Max(shorter)
          ELSE 0

\* filename.split('.')[0]
BeforeDot(s) ==
  LET dots == { k \in DOMAIN s : s[k] = "." }
  IN IF dots = {} THEN s
     ELSE SubSeq(s, 1, (CHOOSE k \in dots : \A j \in dots : k <= j) - 1)

\* filename.match(/^([^_]+(?:_[^_]+)*?)(?:_(?:worksheet|answers|image_\d+))?\./)
\* and the fallback to the part before the first dot
ExtractFileId(filename) ==
  LET e == MatchFrom(filename, 1)
  IN IF e # 0 THEN SubSeq(filename, 1, e) ELSE BeforeDot(filename)

\* filename.includes("..") || filename.includes("/") || filename.includes("\\")
Traversal(filename) ==
  \/ \E k \in DOMAIN filename : filename[k] \in {"/", "\\"}
  \/ \E k \in 1..(Len(filename) - 1) : filename[k] = "." /\ filename[k + 1] = "."

\* .eq("user_id", user.id).eq("file_id", fileId).single(): a row only when
\* exactly one matches
PackageData(uid, fileId) ==
  Cardinality({ k \in OwnPackages(uid) : packages[k].file_id = fileId }) = 1

NoFile == << >>
\* file names asked for: the files on disk, the names the package rows list,
\* a path out of the directory, and no name
DownloadInputs ==
  files \cup { packages[k].files.worksheet : k \in 1..Len(packages) }
        \cup {<<".", ".", "/", "x">>, NoFile}

DownloadBegin(r, variant, s, filename) ==
  [req[r] EXCEPT !.variant = variant, !.session = s, !.file = filename,
                 !.after = { q \in Reqs : Done(q) }]

\* the handler that tests the session, the user and the ownership of a
\* package with the derived file id, and reads the artifact from the
\* storage bucket; what the bucket holds of the generated files is open,
\* because no handler of the repository uploads to it
Download(r, s, filename) ==
  /\ req[r].pc = "idle"
  /\ \A q \in Reqs : q < r => req[q].pc # "idle"
  /\ \E inBucket \in {b \in BOOLEAN : b => filename \in files} :
       LET q0 == DownloadBegin(r, "download", s, filename)
           q1 == [q0 EXCEPT !.user = users[s], !.prefix = ExtractFileId(filename)]
           q2 == [q1 EXCEPT !.found = PackageData(s, q1.prefix)]
       IN req' = [req EXCEPT ![r] =
            IF s = NoSession THEN Reply(q0, 401, "Unauthorized")
            ELSE IF filename = NoFile THEN Reply(q0, 400, "InvalidArgument")
            ELSE IF Traversal(filename) THEN Reply(q0, 400, "InvalidArgument")
            ELSE IF ~users[s].exists THEN Reply(q0, 404, "NotFound")
            ELSE IF ~q2.found THEN Reply(q2, 403, "Forbidden")
            ELSE IF ~inBucket THEN Reply(q2, 404, "NotFound")
            ELSE Reply([q2 EXCEPT !.bytes = filename], 200, "none")]
  /\ UNCHANGED <<users, ledger, payments, packages, files, events, now, usedWrites>>

\* the handler that reads from the temp directory and, when the caller owns
\* no matching package, still serves a file written within the last hour;
\* a caller without user row is not checked at all
DownloadRecent(r, s, filename) ==
  /\ req[r].pc = "idle"
  /\ \A q \in Reqs : q < r => req[q].pc # "idle"
  /\ \E recent \in BOOLEAN :
       LET q0 == DownloadBegin(r, "downloadRecent", s, filename)
           q1 == IF users[s].exists
                 THEN [q0 EXCEPT !.user = users[s],
                                 !.prefix = ExtractFileId(filename)]
                 ELSE q0
           q2 == [q1 EXCEPT !.found = users[s].exists /\ PackageData(s, q1.prefix)]
       IN req' = [req EXCEPT ![r] =
            IF s = NoSession THEN Reply(q0, 401, "Unauthorized")
            ELSE IF filename = NoFile THEN Reply(q0, 400, "InvalidArgument")
            ELSE IF Traversal(filename) THEN Reply(q0, 400, "InvalidArgument")
            ELSE IF users[s].exists /\ ~q2.found /\ filename \notin files
              THEN Reply(q2, 404, "NotFound")
            ELSE IF users[s].exists /\ ~q2.found /\ ~recent
              THEN Reply(q2, 403, "Forbidden")
            ELSE IF filename \notin files THEN Reply(q2, 404, "NotFound")
            ELSE Reply([q2 EXCEPT !.bytes = filename], 200, "none")]
  /\ UNCHANGED <<users, ledger, payments, packages, files, events, now, usedWrites>>

\* the handler without any test of the caller
DownloadOpen(r, s, filename) ==
  /\ req[r].pc = "idle"
  /\ \A q \in Reqs : q < r => req[q].pc # "idle"
  /\ LET q0 == DownloadBegin(r, "downloadOpen", s, filename)
     IN req' = [req EXCEPT ![r] =
          IF filename = NoFile THEN Reply(q0, 400, "InvalidArgument")
          ELSE IF Traversal(filename) THEN Reply(q0, 400, "InvalidArgument")
          ELSE IF filename \notin files THEN Reply(q0, 404, "NotFound")
          ELSE Reply([q0 EXCEPT !.bytes = filename], 200, "none")]
  /\ UNCHANGED <<users, ledger, payments, packages, files, events, now, usedWrites>>

\* ------------------------------------------------------------ the system
Next ==
  \/ \E r \in Reqs : Generate(r)
  \/ \E u \in Users, i \in AppIntents : PaymentCreate(u, i)
  \/ \E i \in AppIntents : StripeConfirm(i)
  \/ \E i \in Intents : VerifyPayment(i)
  \/ \E e \in events : Webhook(e)

Spec == Init /\ [][Next]_vars

\* the system with declined payment attempts and their webhook events
NextDecline == Next \/ \E i \in AppIntents : StripeDecline(i)

SpecDecline == Init /\ [][NextDecline]_vars

\* the generate handler up to the conditional update, for payments of u1
\* whose local status is written by the webhook after declined and confirmed
\* attempts
NextStatus ==
  \/ \E r \in Reqs, x \in GenerateInputs : GenerateStart(r, x[1], x[2], x[3])
  \/ \E r \in Reqs : GenerateGetUser(r)
  \/ \E r \in Reqs : GenerateRetrieve(r)
  \/ \E r \in Reqs : GenerateSelectPayment(r)
  \/ \E r \in Reqs : GenerateFixStatus(r)
  \/ \E r \in Reqs : GenerateConsume(r)
  \/ \E i \in AppIntents : PaymentCreate("u1", i)
  \/ \E i \in AppIntents : StripeConfirm(i)
  \/ \E i \in AppIntents : StripeDecline(i)
  \/ \E e \in events : Webhook(e)

SpecStatus == Init /\ [][NextStatus]_vars

\* the same with the verify call
NextSync == NextStatus \/ \E i \in Intents : VerifyPayment(i)

SpecSync == Init /\ [][NextSync]_vars

\* ------------------------------------------------------------------------
\* The catalogue: the system together with the listing of the packages.  It
\* starts with a package that u1 generated earlier for the topic "C++"; the
\* payment of that generation is not among the payments followed here, so the
\* row has no payment_id.
OldReq == [IdleReq EXCEPT !.session = "u1", !.topic = <<"C", "+", "+">>,
                          !.fileTime = OldTime, !.audio = "mp3",
                          !.content = "ai"]

OldPackage ==
  [user_id |-> "u1", payment_id |-> NoPid, topic |-> trim(OldReq.topic),
   file_id |-> FileId(OldReq), files |-> FilesData(OldReq),
   created_at |-> OldTime]

InitCatalog ==
  /\ users = [u \in Users |-> IF u = "u1"
                               THEN [exists |-> TRUE, stripe_customer_id |-> CustomerOf(u)]
                               ELSE NoUser]
  /\ ledger = [i \in Intents |-> IF i \in ForeignIntents THEN ForeignIntent(i)
                                 ELSE NoIntent]
  /\ payments = [i \in Intents |-> NoPayment]
  /\ packages = <<OldPackage>>
  /\ files = {OldPackage.files.presentation, OldPackage.files.audio,
              OldPackage.files.worksheet, OldPackage.files.answerSheet}
  /\ events = {}
  /\ now = 1
  /\ usedWrites = [i \in Intents |-> 0]
  /\ req = [r \in Reqs |-> IdleReq]

\* payment, generation and listing; the verify route and the webhook, which
\* write payments.status only, are left to the other specifications
NextCatalog ==
  \/ \E r \in Reqs : Generate(r)
  \/ \E u \in Users, i \in AppIntents : PaymentCreate(u, i)
  \/ \E i \in AppIntents : StripeConfirm(i)
  \/ \E r \in Reqs, s \in Sessions : ListPackages(r, s)

SpecCatalog == InitCatalog /\ [][NextCatalog]_vars

\* the catalogue with the download handler that tests the ownership
NextDownload ==
  \/ NextCatalog
  \/ \E r \in Reqs, s \in Sessions, f \in DownloadInputs : Download(r, s, f)

SpecDownload == InitCatalog /\ [][NextDownload]_vars

\* the same with the two other download handlers of download/route.ts
NextDownloads ==
  \/ NextDownload
  \/ \E r \in Reqs, s \in Sessions, f \in DownloadInputs : DownloadRecent(r, s, f)
  \/ \E r \in Reqs, s \in Sessions, f \in DownloadInputs : DownloadOpen(r, s, f)

SpecDownloads == InitCatalog /\ [][NextDownloads]_vars

\* the catalogue when u1 has also paid, through the app, for the intent -1
\* and not yet used the payment
EarlierPayment ==
  [exists |-> TRUE, user_id |-> "u1", stripe_customer_id |-> CustomerOf("u1"),
   amount |-> 100, currency |-> "gbp", status |-> "succeeded",
   used_at |-> NullTime]

InitPair ==
  /\ users = [u \in Users |-> IF u = "u1"
                               THEN [exists |-> TRUE, stripe_customer_id |-> CustomerOf(u)]
                               ELSE NoUser]
  /\ ledger = [i \in Intents |-> IF i \in ForeignIntents THEN ForeignIntent(i)
                                 ELSE NoIntent]
  /\ payments = [i \in Intents |-> IF i = 0 - 1 THEN EarlierPayment
                                   ELSE NoPayment]
  /\ packages = <<OldPackage>>
  /\ files = {OldPackage.files.presentation, OldPackage.files.audio,
              OldPackage.files.worksheet, OldPackage.files.answerSheet}
  /\ events = {}
  /\ now = 1
  /\ usedWrites = [i \in Intents |-> 0]
  /\ req = [r \in Reqs |-> IdleReq]

SpecPair == InitPair /\ [][NextCatalog]_vars

\* ----------------------------- getOrCreateStripeCustomer (subscription.ts)
\* The calls of the payment-create and the portal route, one await at a time.
\* The customer objects Stripe holds for a user are those the calls created.
StripeCustomers(u) ==
  { req[c].created : c \in { d \in Reqs : req[d].session = u /\ req[d].created # NULL } }

\* the value getOrCreateStripeCustomer returns goes to the caller: the portal
\* route answers, the payment-create route goes on to create the intent
ReturnCustomer(q, customerId) ==
  IF q.variant = "portal"
  THEN Reply([q EXCEPT !.customer = customerId], 200, "none")
  ELSE [q EXCEPT !.customer = customerId, !.pc = "createIntent"]

CustomerCallStart(c, u, route) ==
  /\ req[c].pc = "idle"
  /\ \A q \in Reqs : q < c => req[q].pc # "idle"
  /\ req' = [req EXCEPT ![c] = [@ EXCEPT !.variant = route, !.session = u,
                                         !.pc = "readCustomer"]]
  /\ UNCHANGED <<users, ledger, payments, packages, files, events, now, usedWrites>>

\* the read of users.stripe_customer_id and, when there is one, its retrieval
\* at Stripe; a read that throws leads to the catch block
CustomerRead(c) ==
  /\ req[c].pc = "readCustomer"
  /\ \E read \in {"row", "none", "throws"}, retrieved \in BOOLEAN :
       LET q == req[c]
           stored == users[q.session].stripe_customer_id
       IN req' = [req EXCEPT ![c] =
            IF read = "throws" THEN [q EXCEPT !.fallback = TRUE, !.pc = "listCustomers"]
            ELSE IF read = "row" /\ stored # NULL /\ retrieved
              THEN ReturnCustomer(q, stored)
            ELSE [q EXCEPT !.pc = "listCustomers"]]
  /\ UNCHANGED <<users, ledger, payments, packages, files, events, now, usedWrites>>

\* stripe.customers.list({ email, limit: 1 }): the newest customer, if any
CustomerList(c) ==
  /\ req[c].pc = "listCustomers"
  /\ LET q == req[c]
         n == Cardinality(StripeCustomers(q.session))
     IN req' = [req EXCEPT ![c] =
          IF n = 0 THEN [q EXCEPT !.pc = "createCustomer"]
          ELSE IF q.fallback THEN ReturnCustomer(q, CustomerNames(q.session)[n])
          ELSE [q EXCEPT !.customer = CustomerNames(q.session)[n],
                         !.pc = "upsertCustomer"]]
  /\ UNCHANGED <<users, ledger, payments, packages, files, events, now, usedWrites>>

\* stripe.customers.create
CustomerCreate(c) ==
  /\ req[c].pc = "createCustomer"
  /\ LET q == req[c]
         n == Cardinality(StripeCustomers(q.session)) + 1
     IN /\ n <= Len(CustomerNames(q.session))
        /\ LET id == CustomerNames(q.session)[n]
               q1 == [q EXCEPT !.created = id]
           IN req' = [req EXCEPT ![c] =
                IF q.fallback THEN ReturnCustomer(q1, id)
                ELSE [q1 EXCEPT !.customer = id, !.pc = "upsertCustomer"]]
  /\ UNCHANGED <<users, ledger, payments, packages, files, events, now, usedWrites>>

\* the upsert of (email, stripe_customer_id); its result is not inspected
CustomerUpsert(c) ==
  /\ req[c].pc = "upsertCustomer"
  /\ \E ok \in BOOLEAN :
       users' = IF ok
                THEN [users EXCEPT ![req[c].session] =
                        [exists |-> TRUE, stripe_customer_id |-> req[c].customer]]
                ELSE users
  /\ req' = [req EXCEPT ![c] = ReturnCustomer(@, @.customer)]
  /\ UNCHANGED <<ledger, payments, packages, files, events, now, usedWrites>>

\* payment/create/route.ts after the customer is known: the intent is created
\* for that customer, the payment row inserted when the user row is found and
\* the insert succeeds, and the intent returned
CreateIntent(c) ==
  /\ req[c].pc = "createIntent"
  /\ \E i \in AppIntents, stored \in BOOLEAN :
       /\ ~ledger[i].exists
       /\ \A j \in AppIntents : j < i => ledger[j].exists
       /\ stored => users[req[c].session].exists
       /\ ledger' = [ledger EXCEPT ![i] =
                      [exists |-> TRUE, status |-> "requires_payment_method",
                       amount |-> 100, currency |-> "gbp",
                       customer |-> req[c].customer]]
       /\ payments' = IF stored
                      THEN [payments EXCEPT ![i] =
                             [exists |-> TRUE, user_id |-> req[c].session,
                              stripe_customer_id |-> req[c].customer,
                              amount |-> 100, currency |-> "gbp",
                              status |-> "pending", used_at |-> NullTime]]
                      ELSE payments
       /\ req' = [req EXCEPT ![c] = Reply([@ EXCEPT !.pid = i], 200, "none")]
  /\ UNCHANGED <<users, packages, files, events, now, usedWrites>>

NextCustomer ==
  \/ \E c \in Reqs, u \in Users, route \in {"paymentCreate", "portal"} :
       CustomerCallStart(c, u, route)
  \/ \E c \in Reqs : CustomerRead(c)
  \/ \E c \in Reqs : CustomerList(c)
  \/ \E c \in Reqs : CustomerCreate(c)
  \/ \E c \in Reqs : CustomerUpsert(c)
  \/ \E c \in Reqs : CreateIntent(c)
  \/ \E i \in AppIntents : StripeConfirm(i)
  \/ \E r \in Reqs : Generate(r)

SpecCustomer == Init /\ [][NextCustomer]_vars

\* payment creation with the database calls that may fail, and generation
NextPayment ==
  \/ \E u \in Users, i \in AppIntents : PaymentCreate(u, i)
  \/ \E u \in Users, i \in AppIntents : PaymentCreateUnstored(u, i)
  \/ \E i \in AppIntents : StripeConfirm(i)
  \/ \E r \in Reqs : Generate(r)

SpecPayment == Init /\ [][NextPayment]_vars

\* generation, and u1 paying, listing and downloading
NextOwn ==
  \/ \E r \in Reqs : Generate(r)
  \/ \E i \in AppIntents : PaymentCreate("u1", i)
  \/ \E i \in AppIntents : StripeConfirm(i)
  \/ \E r \in Reqs : ListPackages(r, "u1")
  \/ \E r \in Reqs, f \in DownloadInputs : Download(r, "u1", f)

SpecOwn == InitCatalog /\ [][NextOwn]_vars

\* ------------------------------------------------------------------------
\* A second POST handler for generation is kept in the repository
\* (unnamed/part_015).  It checks the session, the presence of topic and
\* reference, the status of the intent and the local payment row, and then
\* generates; it never reads or writes used_at and inserts no package row.
LegacyStart(r, s, t, p) ==
  /\ req[r].pc = "idle"
  /\ \A q \in Reqs : q < r => req[q].pc # "idle"
  /\ ProperInput(<<s, t, p>>)
       \/ Cardinality({q \in Started : Defective(q)}) < MaxDefective
  /\ LET q0 == [req[r] EXCEPT !.variant = "legacy", !.session = s,
                              !.topic = t, !.pid = p]
     IN req' = [req EXCEPT ![r] =
          IF s = NoSession THEN Reply(q0, 401, "Unauthorized")
          ELSE IF t = NoTopic THEN Reply(q0, 400, "InvalidArgument")
          ELSE IF p = NoPid THEN Reply(q0, 402, "PaymentRequired")
          ELSE [q0 EXCEPT !.pc = "legacyRetrieve"]]
  /\ UNCHANGED <<users, ledger, payments, packages, files, events, now, usedWrites>>

\* retrieve is not guarded here: an unknown reference ends in the catch-all
LegacyRetrieve(r) ==
  /\ req[r].pc = "legacyRetrieve"
  /\ LET pi == IF req[r].pid \in Intents THEN ledger[req[r].pid] ELSE NoIntent
         q == [req[r] EXCEPT !.intent = pi]
     IN req' = [req EXCEPT ![r] =
          IF ~pi.exists THEN Reply(q, 500, "GenerationFailed")
          ELSE IF pi.status # "succeeded" THEN Reply(q, 402, "PaymentRequired")
          ELSE [q EXCEPT !.pc = "legacyGetUser"]]
  /\ UNCHANGED <<users, ledger, payments, packages, files, events, now, usedWrites>>

LegacyGetUser(r) ==
  /\ req[r].pc = "legacyGetUser"
  /\ LET u == users[req[r].session]
     IN req' = [req EXCEPT ![r] =
          IF ~u.exists THEN Reply(@, 404, "NotFound")
          ELSE [@ EXCEPT !.user = u, !.pc = "legacySelect"]]
  /\ UNCHANGED <<users, ledger, payments, packages, files, events, now, usedWrites>>

LegacySelectPayment(r) ==
  /\ req[r].pc = "legacySelect"
  /\ LET row == payments[req[r].pid]
     IN req' = [req EXCEPT ![r] =
          IF ~MatchPayment(row, @.session) THEN Reply(@, 403, "Forbidden")
          ELSE [@ EXCEPT !.found = TRUE,
                  !.pc = IF row.status # "succeeded" THEN "legacyFix" ELSE "content"]]
  /\ UNCHANGED <<users, ledger, payments, packages, files, events, now, usedWrites>>

LegacyFixStatus(r) ==
  /\ req[r].pc = "legacyFix"
  /\ LET i == req[r].pid
     IN payments' = IF MatchPayment(payments[i], req[r].session)
                    THEN [payments EXCEPT ![i].status = "succeeded"]
                    ELSE payments
  /\ req' = [req EXCEPT ![r].pc = "content"]
  /\ UNCHANGED <<users, ledger, packages, files, events, now, usedWrites>>

\* the images are written and the response is sent; no package row
LegacyImages(r) ==
  /\ req[r].pc = "images"
  /\ req[r].variant = "legacy"
  /\ \E k \in 0..MaxImages :
       \E m \in 0..k :
         \E j \in 0..m :
           LET q == [req[r] EXCEPT !.imagesFailed = (m = 0), !.images = j]
           IN /\ req' = [req EXCEPT ![r] = Reply(q, 200, "none")]
              /\ files' = files \cup {FileName(q, "image", n) : n \in 1..j}
  /\ UNCHANGED <<users, ledger, payments, packages, events, now, usedWrites>>

LegacyGenerate(r) ==
  \/ \E x \in GenerateInputs : LegacyStart(r, x[1], x[2], x[3])
  \/ LegacyRetrieve(r)
  \/ LegacyGetUser(r)
  \/ LegacySelectPayment(r)
  \/ LegacyFixStatus(r)
  \/ LegacyImages(r)

NextLegacy == Next \/ \E r \in Reqs : LegacyGenerate(r)

SpecLegacy == Init /\ [][NextLegacy]_vars

\* ------------------------------------------------------------------------
\* The file id and its recovery from a file name, as functions: a topic that
\* generate accepts and a clock reading give the file id (generate/route.ts
\* 188-189); a file name built from it gives back a prefix (download/route.ts
\* 96-97).
ProbeChars == {"a", "B", "7", "_", " ", "+"}
NamedTopics ==
  { <<"W", "o", "r", "l", "d", " ", "W", "a", "r", " ", "I", "I">>,
    <<"m", "o", "o", "n", " ", "i", "m", "a", "g", "e">>,
    <<" ", "a", "b", "c", " ">>,
    [k \in 1..(FILE_ID_TOPIC_LEN + 2) |-> IF k % 2 = 1 THEN "a" ELSE "+"] }
ProbeTopics ==
  { t \in UNION { [1..n -> ProbeChars] : n \in 1..MaxTopicLen } : ValidTopic(t) }
    \cup NamedTopics
ProbeTimes == {1, MaxNow, 10 * MaxNow + 7}
FileParts == {"pptx", "mp3", "worksheet", "answers", "image"}

InitFileId ==
  /\ users = [u \in Users |-> IF u = "u1" THEN NewUser ELSE NoUser]
  /\ ledger = [i \in Intents |-> IF i \in ForeignIntents THEN ForeignIntent(i)
                                 ELSE NoIntent]
  /\ payments = [i \in Intents |-> NoPayment]
  /\ packages = << >>
  /\ files = {}
  /\ events = {}
  /\ now = 1
  /\ usedWrites = [i \in Intents |-> 0]
  /\ \E t \in ProbeTopics :
       req = [r \in Reqs |-> IF r = 1
                              THEN [IdleReq EXCEPT !.variant = "fileId", !.topic = t]
                              ELSE IdleReq]

\* const timestamp = Date.now(); const fileId = ...
ComputeFileId(r) ==
  /\ req[r].variant = "fileId" /\ req[r].pc = "idle"
  /\ \E t \in ProbeTimes :
       req' = [req EXCEPT ![r].fileTime = t, ![r].pc = "named"]
  /\ UNCHANGED <<users, ledger, payments, packages, files, events, now, usedWrites>>

\* one of the file names of the generation is asked for and its prefix derived
DeriveFileId(r) ==
  /\ req[r].variant = "fileId" /\ req[r].pc = "named"
  /\ \E part \in FileParts, n \in 1..MaxImages :
       LET filename == FileName(req[r], part, n)
       IN req' = [req EXCEPT ![r].file = filename,
                             ![r].prefix = ExtractFileId(filename),
                             ![r].pc = "derived"]
  /\ UNCHANGED <<users, ledger, payments, packages, files, events, now, usedWrites>>

NextFileId == \E r \in Reqs : ComputeFileId(r) \/ DeriveFileId(r)

SpecFileId == InitFileId /\ [][NextFileId]_vars

\* ------------------------------------------------------------------------
\* The generate handler from the tests of the request to the read of the
\* payment row, with the topics at and around the limits of the validation,
\* asked for by u1
BlankTopic == <<" ", " ", " ">>
MaxTopic == [k \in 1..MAX_TOPIC_LEN |-> "a"]
Padded(t) == <<" ">> \o t \o <<" ">>
TopicProbes ==
  {NoTopic, NumberTopic, BlankTopic, ShortTopic, Padded(ShortTopic), PlainTopic,
   Padded(PlainTopic), MaxTopic, Padded(MaxTopic), LongTopic}

NextTopic ==
  \/ \E r \in Reqs, t \in TopicProbes, i \in AppIntents : GenerateStart(r, "u1", t, i)
  \/ \E r \in Reqs : GenerateGetUser(r)
  \/ \E r \in Reqs : GenerateRetrieve(r)
  \/ \E r \in Reqs : GenerateSelectPayment(r)
  \/ \E i \in AppIntents : PaymentCreate("u1", i)
  \/ \E i \in AppIntents : StripeConfirm(i)

SpecTopic == Init /\ [][NextTopic]_vars

\* ========================================================================
\*                                properties
\* ========================================================================
Route == { r \in Reqs : req[r].variant = "route" }

\* the requests for intent i that passed every check made before the
\* conditional update, up to and including the lookup of the local row
Contenders(i) == { r \in Route : req[r].pid = i /\ req[r].found }
Winners(i) == { r \in Contenders(i) : req[r].affected = 1 }

\* what the request read from the ledger passed the status and price checks
LedgerPaid(q) ==
  /\ q.intent.exists /\ q.intent.status = "succeeded"
  /\ q.intent.amount = EXPECTED_AMOUNT
  /\ toLowerCase(q.intent.currency) = "gbp"

\* the request has called the content provider or is about to
Synthesizing(q) ==
  \/ q.pc \in {"content", "ppt", "audio", "worksheet", "images", "savePackage"}
  \/ q.content # "none"

PackagesOf(i) == { k \in 1..Len(packages) : packages[k].payment_id = i }

C2_UsedAtWrittenOnce ==
  [][\A i \in Intents :
       payments[i].used_at # NullTime =>
         payments'[i].used_at = payments[i].used_at]_vars

\* a consumed payment whose generation failed, a later request for it turned
\* away, and its status synchronised by the webhook or the verify call
C2_Witness ==
  \E i \in AppIntents : \E r1, r2 \in Route :
    /\ payments[i].used_at # NullTime
    /\ req[r1].pid = i /\ Done(r1) /\ req[r1].status = 500
    /\ req[r2].pid = i /\ Done(r2) /\ req[r2].error = "PaymentAlreadyUsed"
    /\ <<"payment_intent.succeeded", i>> \notin events

\* C3: a request reaches content synthesis only after the user was found,
\* the topic was valid, the ledger intent was succeeded, correctly priced and
\* of the user's customer, a local row existed and the request's conditional
\* update affected one row; a request whose update affected no row never
\* reaches synthesis.
C3_SynthesisOnlyAfterConsumption ==
  \A r \in Reqs :
    /\ Synthesizing(req[r]) =>
         /\ req[r].user.exists
         /\ ValidTopic(req[r].topic)
         /\ LedgerPaid(req[r])
         /\ req[r].intent.customer = req[r].user.stripe_customer_id
         /\ req[r].found
         /\ req[r].affected = 1
    /\ req[r].affected = 0 => ~Synthesizing(req[r])

WrongPrice(q) ==
  /\ q.intent.exists /\ q.intent.status = "succeeded"
  /\ \/ q.intent.amount # EXPECTED_AMOUNT
     \/ toLowerCase(q.intent.currency) # "gbp"

\* C5 (as stated): a request whose ledger intent has a wrong amount or
\* currency is rejected with PaymentInvalid in the 403 category and the
\* payment is not consumed.
C5_WrongPriceIs403 ==
  \A r \in Route :
    WrongPrice(req[r]) =>
      /\ Done(r) /\ req[r].status = 403 /\ req[r].error = "PaymentInvalid"
      /\ req[r].affected = 0 - 1

\* C5 (amended): a request whose ledger intent has a wrong amount or
\* currency is rejected with PaymentInvalid, reported with status 402 (the
\* category of a missing or not-succeeded payment), and the payment is not
\* consumed.
C5_WrongPriceIs402 ==
  \A r \in Route :
    WrongPrice(req[r]) =>
      /\ Done(r) /\ req[r].status = 402 /\ req[r].error = "PaymentInvalid"
      /\ req[r].affected = 0 - 1
      /\ usedWrites[req[r].pid] = 0

\* a request for an intent of half the price was answered while the user
\* has an unconsumed, paid payment of their own
C5_Witness ==
  \E r \in Route : \E i \in AppIntents :
    /\ Done(r) /\ WrongPrice(req[r]) /\ req[r].intent.amount # EXPECTED_AMOUNT
    /\ MatchPayment(payments[i], req[r].session)
    /\ ledger[i].status = "succeeded"

\* the intent read is succeeded and correctly priced but its customer is not
\* the customer of the user row read
CustomerMismatch(q) ==
  /\ LedgerPaid(q)
  /\ q.intent.customer # q.user.stripe_customer_id

\* C6: a request for a succeeded, correctly priced intent of another
\* customer is rejected at the customer check with Forbidden (403), also
\* when either reference is absent, and never issues the conditional update.
C6_OtherCustomerForbidden ==
  \A r \in Route :
    CustomerMismatch(req[r]) =>
      /\ Done(r) /\ req[r].status = 403 /\ req[r].error = "Forbidden"
      /\ ~req[r].found /\ req[r].affected = 0 - 1

\* a user with a customer asked for an intent that has none
C6_Witness ==
  \E r \in Route :
    /\ CustomerMismatch(req[r]) /\ Done(r)
    /\ req[r].intent.customer = NULL
    /\ req[r].user.stripe_customer_id # NULL

\* the request passed the ledger checks but there is no payment row with its
\* reference and its user
NoLocalRow(q) ==
  /\ LedgerPaid(q)
  /\ q.intent.customer = q.user.stripe_customer_id
  /\ ~MatchPayment(payments[q.pid], q.session)

\* C7: a request that passes the ledger checks but has no local payment row
\* of its own is rejected with Forbidden (403) without issuing the update,
\* and whoever consumed a payment is the owner of its row.
C7_OwnRowOnly ==
  /\ \A r \in Route :
       (NoLocalRow(req[r]) /\ req[r].pc # "selectPayment") =>
         /\ Done(r) /\ req[r].status = 403 /\ req[r].error = "Forbidden"
         /\ req[r].affected = 0 - 1
  /\ \A i \in Intents : \A r \in Route :
       (req[r].pid = i /\ req[r].affected = 1) =>
         payments[i].exists /\ payments[i].user_id = req[r].session

C7_Witness ==
  \E r \in Route :
    /\ Done(r) /\ NoLocalRow(req[r]) /\ req[r].user.stripe_customer_id # NULL
    /\ \E i \in AppIntents : payments[i].used_at # NullTime

\* C8: when audio synthesis fails the request ends with GenerationFailed
\* (500), no text file stands in for the audio, no package row is inserted
\* for the payment, and the payment stays consumed.
C8_AudioFailureIsFatal ==
  /\ \A r \in Route : FileName(req[r], "txt", 0) \notin files
  /\ \A r \in Route :
       req[r].audio \notin {"none", "mp3"} =>
         /\ Done(r) /\ req[r].status = 500 /\ req[r].error = "GenerationFailed"
         /\ ~req[r].saved /\ PackagesOf(req[r].pid) = {}
         /\ payments[req[r].pid].used_at # NullTime

C8_Witness ==
  \E r \in Route :
    /\ req[r].audio = "failed" /\ Done(r)
    /\ FileName(req[r], "pptx", 0) \in files

\* C9: when image synthesis or download yields no image the request still
\* succeeds; response and package row list the four other files and an empty
\* images list.
C9_ImagesOptional ==
  \A r \in Route :
    (Done(r) /\ req[r].imagesFailed) =>
      /\ req[r].status = 200 /\ req[r].error = "none"
      /\ FilesData(req[r]).images = << >>
      /\ {FilesData(req[r]).presentation, FilesData(req[r]).audio,
          FilesData(req[r]).worksheet, FilesData(req[r]).answerSheet} \subseteq files
      /\ req[r].saved =>
           \E k \in PackagesOf(req[r].pid) :
             packages[k].files = FilesData(req[r])

C9_Witness ==
  \E r \in Route :
    /\ Done(r) /\ req[r].imagesFailed /\ req[r].saved
    /\ \E k \in PackagesOf(req[r].pid) : packages[k].files.images = << >>

Unsaved(r) == Done(r) /\ req[r].status = 200 /\ req[r].insertFailed

Listings == { l \in Reqs : req[l].variant = "packages" /\ Done(l) }

\* C11: when the insert of the package row fails after the files were made,
\* the request is still answered with success, the file names and the
\* generation identifier; the payment stays consumed; and no package row of
\* that payment exists, so that no listing shows the generation.
C11_UnsavedPackageStillSucceeds ==
  \A r \in Route :
    req[r].insertFailed =>
      /\ Done(r) /\ req[r].status = 200 /\ req[r].error = "none"
      /\ ~req[r].saved
      /\ {FilesData(req[r]).presentation, FilesData(req[r]).audio,
          FilesData(req[r]).worksheet, FilesData(req[r]).answerSheet} \subseteq files
      /\ payments[req[r].pid].used_at # NullTime
      /\ PackagesOf(req[r].pid) = {}
      /\ \A l \in Listings : \A k \in DOMAIN req[l].list :
           packages[req[l].list[k].id].payment_id # req[r].pid

\* the owner listed the packages after such a generation and got the older
\* package only
C11_Witness ==
  \E r \in Route : \E l \in Listings :
    /\ Unsaved(r) /\ r \in req[l].after
    /\ req[l].session = req[r].session /\ req[l].status = 200
    /\ Len(req[l].list) = 1

\* the download requests answered by the handlers that test the caller
CheckedDownloads ==
  { d \in Reqs : req[d].variant \in {"download", "downloadRecent"} /\ Done(d) }

\* the caller owns a package whose file_id is the prefix derived from the name
OwnsPackageOf(uid, filename) ==
  \E k \in OwnPackages(uid) : packages[k].file_id = ExtractFileId(filename)

\* C12: a download returns the bytes of a file only to a signed-in caller who
\* has a user row and owns a package whose file_id is the prefix derived
\* from the file name asked for.
C12_BytesOnlyForOwner ==
  \A d \in CheckedDownloads :
    req[d].bytes # << >> =>
      /\ req[d].session # NoSession
      /\ users[req[d].session].exists
      /\ OwnsPackageOf(req[d].session, req[d].file)

\* the file names a package row lists
ListedFiles(row) ==
  {row.files.presentation, row.files.audio, row.files.worksheet,
   row.files.answerSheet} \cup Range(row.files.images)

\* row k was in the table when request d was made: it is the older package
\* or the row of a generation that had been answered before
ExistedAt(d, k) ==
  \/ packages[k].payment_id = NoPid
  \/ \E r \in req[d].after \cap Route :
       req[r].saved /\ req[r].pid = packages[k].payment_id

StrictDownloads == { d \in Reqs : req[d].variant = "download" /\ Done(d) }

\* C13: once the package row of a generation is stored, a download of any
\* file the row lists is authorized when its owner asks (the package is
\* found, the answer is not Forbidden), and is rejected with Forbidden when
\* another user asks.
C13_OwnerMayDownloadOthersMayNot ==
  \A d \in StrictDownloads : \A k \in 1..Len(packages) :
    (ExistedAt(d, k) /\ req[d].file \in ListedFiles(packages[k])) =>
      /\ req[d].session = packages[k].user_id =>
           req[d].found /\ req[d].status # 403
      /\ (req[d].session # packages[k].user_id /\ req[d].user.exists) =>
           /\ req[d].status = 403 /\ req[d].error = "Forbidden"
           /\ req[d].bytes = << >>

Probes == { r \in Reqs : req[r].variant = "fileId" /\ req[r].pc # "idle" }

\* C14: the file id of an accepted topic consists of characters of
\* [a-z0-9_] only, and the prefix derived from every file name built from it
\* is that file id.
C14_PrefixRecoversFileId ==
  \A r \in Probes :
    /\ Range(FileId(req[r])) \subseteq SafeChars
    /\ req[r].pc = "derived" => req[r].prefix = FileId(req[r])

\* the part of the file id before the underscore and the clock reading
TopicPart(q) ==
  SubSeq(FileId(q), 1, Len(FileId(q)) - 1 - Len(DigitsOf(q.fileTime)))

\* C15 (as stated): the file id is the trimmed topic in lower case with the
\* characters outside [a-z0-9_] removed, cut to 50 characters, followed by
\* an underscore and the clock reading.
C15_UnsafeCharactersRemoved ==
  \A r \in Probes :
    FileId(req[r]) =
      substring(SelectSeq(ToLower(trim(req[r].topic)), LAMBDA c : c \in SafeChars),
                FILE_ID_TOPIC_LEN)
        \o <<"_">> \o DigitsOf(req[r].fileTime)

\* C15 (amended): the file id is the trimmed topic in lower case, cut to 50
\* characters, in which every character outside [a-z0-9_] is replaced by an
\* underscore (so that the length is kept), followed by an underscore and
\* the clock reading.
C15_UnsafeCharactersReplaced ==
  \A r \in Probes :
    LET lower == ToLower(trim(req[r].topic))
        id == FileId(req[r])
        part == TopicPart(req[r])
    IN /\ Len(part) = IF Len(lower) < FILE_ID_TOPIC_LEN THEN Len(lower)
                       ELSE FILE_ID_TOPIC_LEN
       /\ \A k \in DOMAIN part :
            part[k] = IF lower[k] \in SafeChars THEN lower[k] ELSE "_"
       /\ id = part \o <<"_">> \o DigitsOf(req[r].fileTime)

\* the file id of "World War II" at clock reading 27 is world_war_ii_27
C15_Witness ==
  \E r \in Probes :
    /\ req[r].topic = <<"W", "o", "r", "l", "d", " ", "W", "a", "r", " ", "I", "I">>
    /\ FileId(req[r]) = <<"w", "o", "r", "l", "d", "_", "w", "a", "r", "_", "i", "i",
                           "_", "2", "7">>

\* the generate requests answered with success before request l was made
\* that stored row k
GenerationsOf(l, k) ==
  { r \in req[l].after \cap Route :
      /\ req[r].status = 200 /\ req[r].saved
      /\ req[r].pid = packages[k].payment_id
      /\ FileId(req[r]) = packages[k].file_id
      /\ req[r].session = packages[k].user_id }

\* C16: a listing returns the columns of exactly the package rows of the
\* caller that were in the table, each once, no row before a newer one; and
\* each listed row was stored by exactly one generation answered with
\* success before (the older package stems from a generation made before
\* the start).
C16_ListingIsOwnPackagesNewestFirst ==
  \A l \in Listings :
    req[l].status = 200 =>
      LET list == req[l].list
      IN /\ users[req[l].session].exists
         /\ { list[a].id : a \in DOMAIN list }
              = { k \in OwnPackages(req[l].session) : ExistedAt(l, k) }
         /\ \A a, b \in DOMAIN list : a # b => list[a].id # list[b].id
         /\ \A a, b \in DOMAIN list :
              a < b => list[a].created_at >= list[b].created_at
         /\ \A a \in DOMAIN list :
              /\ list[a] = PackageColumns(list[a].id)
              /\ packages[list[a].id].user_id = req[l].session
              /\ packages[list[a].id].payment_id # NoPid =>
                   Cardinality(GenerationsOf(l, list[a].id)) = 1

\* u1 got the new package first and the older one second
C16_Witness ==
  \E l \in Listings :
    /\ req[l].session = "u1" /\ req[l].status = 200
    /\ Len(req[l].list) = 2
    /\ req[l].list[1].created_at > req[l].list[2].created_at
    /\ req[l].list[2].file_id = OldPackage.file_id

\* the topic is a string whose trimmed length is within the limits
WithinLimits(t) ==
  /\ t \notin {NoTopic, NumberTopic}
  /\ Len(trim(t)) >= MIN_TOPIC_LEN /\ Len(trim(t)) <= MAX_TOPIC_LEN

\* C17: a signed-in request is turned away with InvalidArgument (400) exactly
\* when its topic is not a string of trimmed length 3 to 500, and such a
\* request has read neither the user, nor the ledger, nor a payment row, and
\* has written nothing.
C17_TopicValidatedFirst ==
  \A r \in Route :
    (req[r].pc # "idle" /\ req[r].session # NoSession) =>
      /\ ~WithinLimits(req[r].topic) =>
           /\ Done(r) /\ req[r].status = 400 /\ req[r].error = "InvalidArgument"
           /\ req[r].user = NoUser /\ req[r].intent = NoIntent
           /\ ~req[r].found /\ req[r].affected = 0 - 1
      /\ WithinLimits(req[r].topic) => req[r].status # 400

\* a topic of 500 characters between two spaces was accepted and its request
\* went on to read the payment row, and a topic of 501 characters was turned
\* away
C17_Witness ==
  \E r1, r2 \in Route :
    /\ req[r1].topic = Padded(MaxTopic) /\ req[r1].found
    /\ req[r2].topic = LongTopic /\ req[r2].status = 400

\* the request was made when the payment it names was already consumed
Late(r) == r \in Route /\ req[r].late

\* C18: a generate request made after the payment it names was consumed
\* never consumes the payment, never reaches synthesis and never succeeds,
\* and when it comes from the owner of the payment with a valid topic it is
\* answered PaymentAlreadyUsed (403), whatever became of the request that
\* consumed the payment.
C18_ConsumedPaymentNeverReused ==
  \A r \in Reqs :
    Late(r) =>
      /\ req[r].affected # 1 /\ ~Synthesizing(req[r]) /\ req[r].status # 200
      /\ (/\ Done(r) /\ ValidTopic(req[r].topic)
          /\ MatchPayment(payments[req[r].pid], req[r].session)) =>
           req[r].status = 403 /\ req[r].error = "PaymentAlreadyUsed"

\* the generation that consumed the payment failed at the audio step, and
\* the owner's request made after the consumption was answered
\* PaymentAlreadyUsed
C18_Witness ==
  \E r1, r2 \in Route :
    /\ req[r1].affected = 1 /\ req[r1].audio = "failed" /\ req[r1].status = 500
    /\ Late(r2) /\ req[r2].pid = req[r1].pid /\ req[r2].session = req[r1].session
    /\ Done(r2) /\ req[r2].error = "PaymentAlreadyUsed"

\* the request was answered after reading nothing and writing nothing
TouchedNothing(q) ==
  /\ q.user = NoUser /\ q.intent = NoIntent /\ ~q.found
  /\ q.affected = 0 - 1 /\ q.bytes = << >> /\ q.list = << >>
  /\ ~Synthesizing(q)

\* C19: a generate, package-listing or download request made without a
\* session is answered 401 and has read no user, payment, package or
\* artifact and written none.
C19_NoSessionIs401 ==
  \A r \in Started :
    req[r].session = NoSession =>
      /\ Done(r) /\ req[r].status = 401
      /\ TouchedNothing(req[r])

\* C20: a request that reads a ledger intent that is not succeeded is
\* answered PaymentRequired (402) by that step, whatever the local row says
\* and without reading it; a request that read a succeeded intent and then
\* finds its own unused local row marked pending or failed is not turned
\* away: it sets the row to succeeded and goes on to the conditional update.
C20_LedgerStatusDecides ==
  [][\A r \in Route :
       LET q == req[r]
           row == payments[q.pid]
       IN /\ (/\ q.pc = "retrieve" /\ req'[r].pc # "retrieve"
               /\ ledger[q.pid].exists /\ ledger[q.pid].status # "succeeded") =>
                /\ req'[r].pc = "done" /\ req'[r].status = 402
                /\ req'[r].error = "PaymentRequired" /\ ~req'[r].found
          /\ (/\ q.pc = "selectPayment" /\ req'[r].pc # "selectPayment"
               /\ MatchPayment(row, q.session) /\ row.used_at = NullTime
               /\ row.status \in {"pending", "failed"}) =>
                /\ LedgerPaid(q)
                /\ req'[r].pc = "fixStatus" /\ req'[r].status = 0
          /\ (q.pc = "fixStatus" /\ req'[r].pc # "fixStatus") =>
                /\ req'[r].pc = "consume" /\ req'[r].status = 0
                /\ MatchPayment(row, q.session) => payments'[q.pid].status = "succeeded"
    ]_vars

\* a request whose ledger intent was succeeded found the local row marked
\* failed and was let through to the update of the row
C20_Witness ==
  \E r \in Route :
    /\ req[r].pc = "fixStatus" /\ req[r].intent.status = "succeeded"
    /\ payments[req[r].pid].status = "failed"

\* the step is taken by generate request r
StepOf(r) == req'[r].variant \in {"route", "legacy"} /\ req'[r] # req[r]

\* C21: a step a generate request takes before its conditional update of
\* used_at leaves every Payment row, every Package row and every User row
\* as it was.
C21_NothingWrittenBeforeConsumption ==
  [][\A r \in Reqs :
       (StepOf(r) /\ req[r].affected = 0 - 1 /\ req[r].pc # "consume") =>
         /\ payments' = payments
         /\ packages' = packages
         /\ users' = users
    ]_vars

\* C22: a step changes used_at of a Payment only when it is the conditional
\* update of a generate request for that payment, which finds it null; a row
\* is created with used_at null; so payment creation, the verify call and
\* the two webhook events leave used_at of every Payment as it was.
C22_OnlyGenerateWritesUsedAt ==
  [][\A i \in Intents :
       /\ payments'[i].used_at # payments[i].used_at =>
            /\ payments[i].used_at = NullTime
            /\ \E r \in Route :
                 /\ req[r].pc = "consume" /\ req[r].pid = i
                 /\ req'[r].affected = 1
       /\ (~payments[i].exists /\ payments'[i].exists) =>
            payments'[i].used_at = NullTime
    ]_vars

\* the payment was consumed, the payment_intent.succeeded event was delivered
\* and a payment_intent.payment_failed event delivered after the consumption
\* marked the row failed: used_at is still set
C22_Witness ==
  \E i \in AppIntents :
    /\ payments[i].used_at # NullTime /\ payments[i].status = "failed"
    /\ ledger[i].status = "succeeded"
    /\ \A e \in events : e[2] # i

\* the generate requests that inserted a Package row
Savers == { r \in Route : req[r].saved }

\* the presentation, audio, worksheet and answer-sheet files of request r
CoreFiles(r) ==
  { FileName(req[r], "pptx", 0), FileName(req[r], "mp3", 0),
    FileName(req[r], "worksheet", 0), FileName(req[r], "answers", 0) }

\* C23: at most one Package row references a given Payment, there is one row
\* per request that inserted one, and every row is that of a generate request
\* of the row's user whose conditional update of the referenced Payment was
\* applied and whose presentation, audio, worksheet and answer-sheet files
\* are stored.
C23_OnePackagePerPayment ==
  /\ \A i \in Intents : Cardinality(PackagesOf(i)) <= 1
  /\ Len(packages) = Cardinality(Savers)
  /\ \A k \in 1..Len(packages) :
       \E r \in Savers :
         /\ req[r].session = packages[k].user_id
         /\ req[r].pid = packages[k].payment_id
         /\ req[r].affected = 1 /\ payments[req[r].pid].used_at # NullTime
         /\ FileId(req[r]) = packages[k].file_id
         /\ CoreFiles(r) \subseteq files

\* a package references the payment, and another request for the same
\* payment was turned away
C23_Witness ==
  \E k \in 1..Len(packages) : \E r \in Route :
    /\ packages[k].payment_id \in AppIntents
    /\ req[r].pid = packages[k].payment_id
    /\ req[r].error = "PaymentAlreadyUsed"

\* C24: no step of generation, listing or download changes or removes a
\* Package row that is stored, and every package a listing returned is still
\* a row of that user with the same topic, file_id and files.
C24_PackagesAppendOnly ==
  /\ [][/\ Len(packages') >= Len(packages)
        /\ \A k \in 1..Len(packages) : packages'[k] = packages[k]]_vars
  /\ [](\A l \in Listings :
          \A a \in DOMAIN req[l].list :
            \E k \in OwnPackages(req[l].session) :
              /\ packages[k].topic = req[l].list[a].topic
              /\ packages[k].file_id = req[l].list[a].file_id
              /\ packages[k].files = req[l].list[a].files)

\* u1 was listed the one package stored at the time, and a generation of u1
\* has added a second row since, leaving the first as it was
C24_Witness ==
  \E l \in Listings :
    /\ req[l].session = "u1" /\ req[l].status = 200 /\ Len(req[l].list) = 1
    /\ Len(packages) = 2 /\ packages[1] = OldPackage
    /\ packages[2].user_id = "u1"

\* name begins with the characters of id
StartsWith(name, id) ==
  Len(name) >= Len(id) /\ SubSeq(name, 1, Len(id)) = id

Succeeded == { r \in Route : Done(r) /\ req[r].status = 200 }

Producing(r) == r \in Route /\ req[r].fileTime # 0

\* C27: two generate requests that reached the production of the files have
\* different generation identifiers, and no user has two Package rows with
\* the same file_id.
C27_IdentifiersDiffer ==
  /\ \A r1, r2 \in Reqs :
       (r1 # r2 /\ Producing(r1) /\ Producing(r2)) =>
         FileId(req[r1]) # FileId(req[r2])
  /\ \A k1, k2 \in 1..Len(packages) :
       (k1 # k2 /\ packages[k1].user_id = packages[k2].user_id) =>
         packages[k1].file_id # packages[k2].file_id

\* C28: a step in which the payment-create route creates and returns an
\* intent for a user leaves a Payment row of that intent with the user's id,
\* status pending and used_at null.
C28_ReturnedIntentHasRow ==
  [][\A i \in AppIntents :
       (~ledger[i].exists /\ ledger'[i].exists) =>
         /\ payments'[i].exists
         /\ payments'[i].user_id = EmailOf(ledger'[i].customer)
         /\ payments'[i].status = "pending"
         /\ payments'[i].used_at = NullTime
    ]_vars

\* the calls of the payment-create route that returned an intent
Issued == { c \in Reqs : req[c].variant = "paymentCreate" /\ Done(c) /\ req[c].status = 200 }

\* C29: the customer of every intent the payment-create route returned to a
\* user is the customer stored in that user's row, and a generate request of
\* that user for such an intent, succeeded at the configured price, is not
\* answered Forbidden.
C29_IntentCustomerIsStored ==
  \A c \in Issued :
    /\ ledger[req[c].pid].customer = users[req[c].session].stripe_customer_id
    /\ \A r \in Route :
         (/\ req[r].pid = req[c].pid /\ req[r].session = req[c].session
          /\ LedgerPaid(req[r])) => req[r].error # "Forbidden"


\* C30: in every reachable state a Payment row whose used_at is set has the
\* local status succeeded, whatever the order in which verification and the
\* webhook events are delivered relative to the generate requests.
C30_UsedPaymentIsSucceeded ==
  \A i \in Intents :
    (payments[i].exists /\ payments[i].used_at # NullTime) =>
      payments[i].status = "succeeded"

====
